---- MODULE Spec2Model ----
(***************************************************************************)
(* A model of transfat's main() (src/transfat/main.py).  main() is a       *)
(* straight-line script: it calls, in textual order, into the modules      *)
(* system, fatsort, transfer and armin.  Those modules are not part of     *)
(* src/; their outcomes are modelled from the specification (spec.md) and  *)
(* are drawn nondeterministically.  The control flow, the variables of     *)
(* main() and the arguments it hands on are modelled from main.py.         *)
(***************************************************************************)
EXTENDS Integers, Sequences, FiniteSets, TLC

VARIABLES
    pc,               \* the next call statement of main(), "return" or "aborted"
    args,             \* runtime arguments (main.py:39)
    cfgSettings,      \* configuration settings (main.py:44)
    devLoc,           \* device location, "" if none was found (main.py:92)
    fromFiles,        \* source file list of the plan (main.py:111)
    toDirs,           \* destination directory list of the plan (main.py:111)
    toFiles,          \* destination file list of the plan (main.py:111)
    tmpFiles,         \* temp files returned by the conversion (main.py:130)
    calls,            \* history: the calls main() has made, in order
    returned,         \* history: the calls that have returned normally
    convertReturned,  \* history: what convertAudioFiles returned
    deleteFilesArgs,  \* history: the arguments of each deleteFiles call
    deletePathsArgs,  \* history: the arguments of each deletePaths call
    copyFailed,       \* history: indices copyFiles reported as not copied
    exitStatus,       \* exit status of the process, -1 while running
    failed,           \* history: the call whose failure ended the run, or ""
    errors,           \* history: the talk.error calls, in order
    excludedExts,     \* history: the extensions the filter excluded
    planArgs          \* history: the plan lists handed to each stage

vars == <<pc, args, cfgSettings, devLoc, fromFiles, toDirs, toFiles, tmpFiles,
          calls, returned, convertReturned, deleteFilesArgs, deletePathsArgs,
          copyFailed, exitStatus, failed, errors, excludedExts, planArgs>>

----------------------------------------------------------------------------
(* Bounds *)

MaxSources == 2        \* source paths on the command line
MaxDeleteSetting == 2  \* DeleteSources is drawn from 0 .. Max

Exts == {"mp3", "wav"}

DeleteSettings == 0 .. MaxDeleteSetting

\* The paths that can be named as a source: a regular file (one extension) or
\* a directory holding files with the given extensions.
SourcePaths == {[kind |-> "file", exts |-> <<"mp3">>],
                [kind |-> "file", exts |-> <<"wav">>],
                [kind |-> "dir", exts |-> <<"wav", "mp3">>]}

\* the command lines: up to MaxSources distinct source paths
SourceLists ==
    UNION {{s \in [1..k -> SourcePaths] :
               \A a, b \in 1..k : a # b => s[a] # s[b]} : k \in 1..MaxSources}

----------------------------------------------------------------------------
(* Paths are triples <<tag, source index, file index>> *)

SrcPath(k, j) == <<"src", k, j>>
DstPath(k, j) == <<"dst", k, j>>
TmpPath(k, j) == <<"tmp", k, j>>
DirPath(k)    == <<"dir", k, 0>>

Range(s) == {s[i] : i \in 1..Len(s)}

RECURSIVE SetToSeq(_)
SetToSeq(S) ==
    IF S = {} THEN <<>>
    ELSE LET m == CHOOSE x \in S : \A y \in S : x <= y
         IN <<m>> \o SetToSeq(S \ {m})

\* the subsequence of s at the indices in keep, in order
AtIndices(s, keep) == LET ix == SetToSeq(keep \cap (1..Len(s)))
                      IN [i \in 1..Len(ix) |-> s[ix[i]]]

----------------------------------------------------------------------------
(* The collaborators of main(), modelled from the specification *)

\* the <<source index, file index>> pairs of the files found under sources
\* 1..n, in walk order; file index 0 is a source that is itself a file
RECURSIVE PlanEntries(_, _)
PlanEntries(sources, n) ==
    IF n = 0 THEN <<>>
    ELSE PlanEntries(sources, n - 1) \o
         (IF sources[n].kind = "file" THEN << <<n, 0>> >>
          ELSE [j \in 1..Len(sources[n].exts) |-> <<n, j>>])

\* order-preserving removal of duplicates
RECURSIVE Dedup(_)
Dedup(s) ==
    IF s = <<>> THEN <<>>
    ELSE LET front == Dedup(SubSeq(s, 1, Len(s) - 1))
             last == s[Len(s)]
         IN IF last \in Range(front) THEN front ELSE Append(front, last)

\* transfer.getCorrespondingPathsLists: the parallel lists of the plan
getCorrespondingPathsLists(sources) ==
    LET es == PlanEntries(sources, Len(sources))
    IN [fromFiles |-> [i \in 1..Len(es) |-> SrcPath(es[i][1], es[i][2])],
        toFiles   |-> [i \in 1..Len(es) |-> DstPath(es[i][1], es[i][2])],
        toDirs    |-> Dedup([i \in 1..Len(es) |->
                               IF es[i][2] = 0 THEN DirPath(0)
                               ELSE DirPath(es[i][1])])]

\* the extension of a path; a temp file carries the target extension
ExtOf(sources, p) ==
    IF p[1] = "tmp" THEN "mp3"
    ELSE sources[p[2]].exts[IF p[3] = 0 THEN 1 ELSE p[3]]

\* transfer.filterOutExtensions: the indices that survive the filter
filterOutExtensions(sources, tf, excluded) ==
    {i \in 1..Len(tf) : ExtOf(sources, tf[i]) \notin excluded}

\* transfer.convertAudioFiles: the indices a wav -> mp3 rule applies to
convertCandidates(sources, ff, rules) ==
    {i \in 1..Len(ff) : \E r \in rules :
        /\ ExtOf(sources, ff[i]) = r[1]
        /\ ExtOf(sources, ff[i]) # r[2]}

ConversionRules == {<<"wav", "mp3">>}

\* transfer.convertAudioFiles: the plan and the temp files after the
\* conversions of the indices in done have succeeded
convertAudioFiles(ff, tf, done) ==
    LET ix == SetToSeq(done)
    IN [toFiles  |-> [i \in 1..Len(tf) |->
                        IF i \in done THEN TmpPath(ff[i][2], ff[i][3])
                        ELSE tf[i]],
        tmpFiles |-> [n \in 1..Len(ix) |->
                        TmpPath(ff[ix[n]][2], ff[ix[n]][3])]]

\* transfer.copyFiles: the indices it may report as not copied; a failed
\* copy is reported and the remaining files are still copied
copyFilesFailures(ff) == {{}} \cup {{i} : i \in 1..Len(ff)}

\* system.abort: the process ends with the given status
abort(status) == /\ pc' = "aborted"
                 /\ exitStatus' = status


----------------------------------------------------------------------------
(* main() *)

\* main() with the copy placed before the directory creation
MainOrder_CopyBeforeDirectories ==
    <<"getConfigurationSettings", "requestRootAccess",
      "fatsortAvailable", "findDeviceLocations",
      "getCorrespondingPathsLists", "filterOutExtensions",
      "convertAudioFiles", "copyFiles", "createDirectories",
      "rename", "deleteFiles", "deletePaths", "unmount", "fatsort",
      "return">>

\* main() with the unmount placed before the source deletion
MainOrder_UnmountBeforeDeletePaths ==
    <<"getConfigurationSettings", "requestRootAccess",
      "fatsortAvailable", "findDeviceLocations",
      "getCorrespondingPathsLists", "filterOutExtensions",
      "convertAudioFiles", "createDirectories", "copyFiles",
      "rename", "deleteFiles", "unmount", "deletePaths", "fatsort",
      "return">>

\* main() with the Armin rename placed after the temp-file deletion
MainOrder_RenameAfterDeleteFiles ==
    <<"getConfigurationSettings", "requestRootAccess",
      "fatsortAvailable", "findDeviceLocations",
      "getCorrespondingPathsLists", "filterOutExtensions",
      "convertAudioFiles", "createDirectories", "copyFiles",
      "deleteFiles", "rename", "deletePaths", "unmount", "fatsort",
      "return">>

\* the call statements of main() in textual order
MainOrder == <<"getConfigurationSettings", "requestRootAccess",
               "fatsortAvailable", "findDeviceLocations",
               "getCorrespondingPathsLists", "filterOutExtensions",
               "convertAudioFiles", "createDirectories", "copyFiles",
               "rename", "deleteFiles", "deletePaths", "unmount", "fatsort",
               "return">>

Position(order, f) == CHOOSE i \in 1..Len(order) : order[i] = f

\* the statement main() reaches when the statement at f has completed
After(f) == MainOrder[Position(MainOrder, f) + 1]

\* the prompt flag without the offset of one
PromptFlag_NoOffset(deleteSourceSetting) == deleteSourceSetting

\* a prompt flag that is never set
PromptFlag_Zero(deleteSourceSetting) == 0

\* main.py:171
PromptFlag(deleteSourceSetting) == deleteSourceSetting - 1

\* the condition without the test of the setting itself
ShouldDeleteSources_IgnoreSetting(deleteSourceSetting, non_interactive) ==
    ~(non_interactive /\ PromptFlag(deleteSourceSetting) # 0)

\* the condition without the test of non-interactive mode
ShouldDeleteSources_IgnoreNonInteractive(deleteSourceSetting, non_interactive) ==
    deleteSourceSetting # 0

\* the condition with the prompt flag negated
ShouldDeleteSources_InvertedFlag(deleteSourceSetting, non_interactive) ==
    /\ deleteSourceSetting # 0
    /\ ~(non_interactive /\ PromptFlag(deleteSourceSetting) = 0)

\* main.py:173-174, with Python's truth values of integers
ShouldDeleteSources(deleteSourceSetting, non_interactive) ==
    /\ deleteSourceSetting # 0
    /\ ~(non_interactive /\ PromptFlag(deleteSourceSetting) # 0)

\* deleteFiles called on the destination list instead of the temp files
DeleteFilesArgument_ToFiles == toFiles

\* main.py:163, the argument of transfer.deleteFiles
DeleteFilesArgument == tmpFiles

\* main.py:120, the lists handed to transfer.filterOutExtensions
FilterArguments == [fromFiles |-> fromFiles, toFiles |-> toFiles]

\* main.py:130, the lists handed to transfer.convertAudioFiles
ConvertArguments == [fromFiles |-> fromFiles, toFiles |-> toFiles]

\* the directory of a destination (or temp) file of the plan
DirOf(p) == IF p[3] = 0 THEN DirPath(0) ELSE DirPath(p[2])

\* createDirectories called on the directories of the files still in the plan
CreateDirectoriesArgument_OfRemainingFiles ==
    Dedup([i \in 1..Len(toFiles) |-> DirOf(toFiles[i])])

\* main.py:139, the list handed to transfer.createDirectories
CreateDirectoriesArgument == toDirs

\* main.py:147, the lists handed to transfer.copyFiles
CopyArguments == [fromFiles |-> fromFiles, toFiles |-> toFiles]

\* bookkeeping of the plan lists handed to the call of f
Passes(f, ff, tf, td) ==
    planArgs' = Append(planArgs, [call |-> f, fromFiles |-> ff,
                                  toFiles |-> tf, toDirs |-> td])

\* main.py:178, the paths handed to transfer.deletePaths
DeletePathsArgument == [k \in 1..Len(args.sources) |-> SrcPath(k, 0)]

\* bookkeeping of a call of f that returns normally
Returns(f) == /\ calls' = Append(calls, f)
              /\ returned' = returned \cup {f}

\* bookkeeping of a call of f that does not return to main()
Raises(f) == /\ calls' = Append(calls, f)
             /\ UNCHANGED returned

Proceed(f) == /\ pc' = After(f)
              /\ UNCHANGED <<exitStatus, failed, errors>>

\* talk.error(message, args.quiet)
Error(message) ==
    errors' = Append(errors, [message |-> message, quiet |-> args.quiet])

\* the call of f returned a failure: talk.error, then system.abort(1)
Fatal(f, message) == /\ Error(message)
                     /\ failed' = f
                     /\ abort(1)

\* the call of f raised: nothing of main() runs afterwards
Raised(f) == /\ failed' = f
             /\ UNCHANGED errors
             /\ abort(1)

Init ==
    /\ pc = "getConfigurationSettings"
    /\ args \in [no_fatsort : BOOLEAN, non_interactive : BOOLEAN,
                 armin : BOOLEAN, quiet : BOOLEAN, sources : SourceLists]
    /\ cfgSettings = [read |-> FALSE, DeleteSources |-> 0]
    /\ devLoc = ""
    /\ fromFiles = <<>>
    /\ toDirs = <<>>
    /\ toFiles = <<>>
    /\ tmpFiles = <<>>
    /\ calls = <<>>
    /\ returned = {}
    /\ convertReturned = <<>>
    /\ deleteFilesArgs = <<>>
    /\ deletePathsArgs = <<>>
    /\ copyFailed = {}
    /\ exitStatus = -1
    /\ failed = ""
    /\ errors = <<>>
    /\ excludedExts = {}
    /\ planArgs = <<>>

\* main.py:41-52
ReadConfig ==
    /\ pc = "getConfigurationSettings"
    /\ \/ /\ \E d \in DeleteSettings :
               cfgSettings' = [read |-> TRUE, DeleteSources |-> d]
          /\ Returns("getConfigurationSettings")
          /\ Proceed("getConfigurationSettings")
       \/ \* the settings are empty; getConfigurationSettings, which is
          \* handed args.quiet, has reported the reason itself
          /\ UNCHANGED cfgSettings
          /\ Returns("getConfigurationSettings")
          /\ Fatal("getConfigurationSettings", "config file not read")
    /\ UNCHANGED <<excludedExts, planArgs>>
    /\ UNCHANGED <<args, devLoc, fromFiles, toDirs, toFiles, tmpFiles,
                   convertReturned, deleteFilesArgs, deletePathsArgs,
                   copyFailed>>

\* main.py:54-68
RequestRootAccess ==
    /\ pc = "requestRootAccess"
    /\ IF ~args.no_fatsort
       THEN /\ Returns("requestRootAccess")
            /\ \E rootAccess \in BOOLEAN :
                 IF ~rootAccess
                 THEN Fatal("requestRootAccess", "Failed to run as root!")
                 ELSE Proceed("requestRootAccess")
       ELSE /\ Proceed("requestRootAccess")
            /\ UNCHANGED <<calls, returned>>
    /\ UNCHANGED <<excludedExts, planArgs>>
    /\ UNCHANGED <<args, cfgSettings, devLoc, fromFiles, toDirs, toFiles,
                   tmpFiles, convertReturned, deleteFilesArgs,
                   deletePathsArgs, copyFailed>>

\* main.py:74-84
CheckFatsortAvailable ==
    /\ pc = "fatsortAvailable"
    /\ IF ~args.no_fatsort
       THEN /\ Returns("fatsortAvailable")
            /\ \E available \in BOOLEAN :
                 IF available THEN Proceed("fatsortAvailable")
                 ELSE Fatal("fatsortAvailable", "fatsort not found!")
       ELSE /\ Proceed("fatsortAvailable")
            /\ UNCHANGED <<calls, returned>>
    /\ UNCHANGED <<excludedExts, planArgs>>
    /\ UNCHANGED <<args, cfgSettings, devLoc, fromFiles, toDirs, toFiles,
                   tmpFiles, convertReturned, deleteFilesArgs,
                   deletePathsArgs, copyFailed>>

\* the device looked up only when fatsorting
FindDeviceLocations_OnlyWhenFatsorting ==
    /\ pc = "findDeviceLocations"
    /\ IF ~args.no_fatsort
       THEN /\ Returns("findDeviceLocations")
            /\ \E loc \in {"", "/dev/sdb1"} :
                 /\ devLoc' = loc
                 /\ IF loc = ""
                    THEN Fatal("findDeviceLocations", "no FAT device found!")
                    ELSE Proceed("findDeviceLocations")
       ELSE /\ Proceed("findDeviceLocations")
            /\ UNCHANGED <<devLoc, calls, returned>>
    /\ UNCHANGED <<excludedExts, planArgs>>
    /\ UNCHANGED <<args, cfgSettings, fromFiles, toDirs, toFiles, tmpFiles,
                   convertReturned, deleteFilesArgs, deletePathsArgs,
                   copyFailed>>

\* main.py:86-105
FindDeviceLocations ==
    /\ pc = "findDeviceLocations"
    /\ Returns("findDeviceLocations")
    /\ \E loc \in {"", "/dev/sdb1"} :
         /\ devLoc' = loc
         /\ IF loc = ""
            THEN Fatal("findDeviceLocations", "no FAT device found!")
            ELSE Proceed("findDeviceLocations")
    /\ UNCHANGED <<excludedExts, planArgs>>
    /\ UNCHANGED <<args, cfgSettings, fromFiles, toDirs, toFiles, tmpFiles,
                   convertReturned, deleteFilesArgs, deletePathsArgs,
                   copyFailed>>

\* main() going on when the path mapping has failed
GetPaths_FailureIgnored ==
    /\ pc = "getCorrespondingPathsLists"
    /\ \/ /\ LET plan == getCorrespondingPathsLists(args.sources)
             IN /\ fromFiles' = plan.fromFiles
                /\ toDirs' = plan.toDirs
                /\ toFiles' = plan.toFiles
          /\ Returns("getCorrespondingPathsLists")
          /\ Proceed("getCorrespondingPathsLists")
       \/ /\ UNCHANGED <<fromFiles, toDirs, toFiles>>
          /\ Raises("getCorrespondingPathsLists")
          /\ failed' = "getCorrespondingPathsLists"
          /\ pc' = After("getCorrespondingPathsLists")
          /\ UNCHANGED <<errors, exitStatus>>
    /\ UNCHANGED <<excludedExts, planArgs>>
    /\ UNCHANGED <<args, cfgSettings, devLoc, tmpFiles, convertReturned,
                   deleteFilesArgs, deletePathsArgs, copyFailed>>

\* main.py:107-115
GetPaths ==
    /\ pc = "getCorrespondingPathsLists"
    /\ \/ /\ LET plan == getCorrespondingPathsLists(args.sources)
             IN /\ fromFiles' = plan.fromFiles
                /\ toDirs' = plan.toDirs
                /\ toFiles' = plan.toFiles
          /\ Returns("getCorrespondingPathsLists")
          /\ Proceed("getCorrespondingPathsLists")
       \/ \* PathResolutionError
          /\ UNCHANGED <<fromFiles, toDirs, toFiles>>
          /\ Raises("getCorrespondingPathsLists")
          /\ Raised("getCorrespondingPathsLists")
    /\ UNCHANGED <<excludedExts, planArgs>>
    /\ UNCHANGED <<args, cfgSettings, devLoc, tmpFiles, convertReturned,
                   deleteFilesArgs, deletePathsArgs, copyFailed>>

\* the filter's result not reaching the lists of main()
FilterExtensions_ResultDiscarded ==
    /\ pc = "filterOutExtensions"
    /\ Passes("filterOutExtensions", FilterArguments.fromFiles,
              FilterArguments.toFiles, <<>>)
    /\ \E excluded \in SUBSET Exts : excludedExts' = excluded
    /\ UNCHANGED <<fromFiles, toFiles>>
    /\ Returns("filterOutExtensions")
    /\ Proceed("filterOutExtensions")
    /\ UNCHANGED <<args, cfgSettings, devLoc, toDirs, tmpFiles,
                   convertReturned, deleteFilesArgs, deletePathsArgs,
                   copyFailed>>

\* the filter applied to the source list only
FilterExtensions_OnlyFromFiles ==
    /\ pc = "filterOutExtensions"
    /\ Passes("filterOutExtensions", FilterArguments.fromFiles,
              FilterArguments.toFiles, <<>>)
    /\ \E excluded \in SUBSET Exts :
         LET keep == filterOutExtensions(args.sources,
                                         FilterArguments.toFiles, excluded)
         IN /\ excludedExts' = excluded
            /\ fromFiles' = AtIndices(FilterArguments.fromFiles, keep)
    /\ UNCHANGED toFiles
    /\ Returns("filterOutExtensions")
    /\ Proceed("filterOutExtensions")
    /\ UNCHANGED <<args, cfgSettings, devLoc, toDirs, tmpFiles,
                   convertReturned, deleteFilesArgs, deletePathsArgs,
                   copyFailed>>

\* main.py:117-123
FilterExtensions ==
    /\ pc = "filterOutExtensions"
    /\ Passes("filterOutExtensions", FilterArguments.fromFiles,
              FilterArguments.toFiles, <<>>)
    /\ \E excluded \in SUBSET Exts :
         LET keep == filterOutExtensions(args.sources,
                                         FilterArguments.toFiles, excluded)
         IN /\ excludedExts' = excluded
            /\ fromFiles' = AtIndices(FilterArguments.fromFiles, keep)
            /\ toFiles' = AtIndices(FilterArguments.toFiles, keep)
    /\ Returns("filterOutExtensions")
    /\ Proceed("filterOutExtensions")
    /\ UNCHANGED <<args, cfgSettings, devLoc, toDirs, tmpFiles,
                   convertReturned, deleteFilesArgs, deletePathsArgs,
                   copyFailed>>

\* main.py:125-134
ConvertAudio ==
    /\ pc = "convertAudioFiles"
    /\ Passes("convertAudioFiles", ConvertArguments.fromFiles,
              ConvertArguments.toFiles, <<>>)
    /\ \E rules \in SUBSET ConversionRules :
         LET candidates == convertCandidates(args.sources,
                                            ConvertArguments.fromFiles, rules)
         IN \E done \in SUBSET candidates :
              \/ LET res == convertAudioFiles(ConvertArguments.fromFiles,
                                              ConvertArguments.toFiles, done)
                 IN /\ toFiles' = res.toFiles
                    /\ tmpFiles' = res.tmpFiles
                    /\ convertReturned' = res.tmpFiles
                    /\ Returns("convertAudioFiles")
                    /\ Proceed("convertAudioFiles")
              \/ \* a failed conversion, configured to be fatal
                 /\ done # candidates
                 /\ UNCHANGED <<toFiles, tmpFiles, convertReturned>>
                 /\ Raises("convertAudioFiles")
                 /\ Raised("convertAudioFiles")
    /\ UNCHANGED excludedExts
    /\ UNCHANGED <<args, cfgSettings, devLoc, fromFiles, toDirs,
                   deleteFilesArgs, deletePathsArgs, copyFailed>>

\* main.py:136-142
CreateDirectories ==
    /\ pc = "createDirectories"
    /\ Passes("createDirectories", <<>>, <<>>, CreateDirectoriesArgument)
    /\ \/ /\ Returns("createDirectories")
          /\ Proceed("createDirectories")
       \/ \* DirectoryCreationError
          /\ Raises("createDirectories")
          /\ Raised("createDirectories")
    /\ UNCHANGED excludedExts
    /\ UNCHANGED <<args, cfgSettings, devLoc, fromFiles, toDirs, toFiles,
                   tmpFiles, convertReturned, deleteFilesArgs,
                   deletePathsArgs, copyFailed>>

\* main.py:144-150
CopyFiles ==
    /\ pc = "copyFiles"
    /\ Passes("copyFiles", CopyArguments.fromFiles, CopyArguments.toFiles,
              <<>>)
    /\ \E notCopied \in copyFilesFailures(CopyArguments.fromFiles) :
         copyFailed' = notCopied
    /\ Returns("copyFiles")
    /\ Proceed("copyFiles")
    /\ UNCHANGED excludedExts
    /\ UNCHANGED <<args, cfgSettings, devLoc, fromFiles, toDirs, toFiles,
                   tmpFiles, convertReturned, deleteFilesArgs,
                   deletePathsArgs>>

\* main.py:152-158
ArminRename ==
    /\ pc = "rename"
    /\ IF args.armin THEN Returns("rename")
       ELSE UNCHANGED <<calls, returned>>
    /\ Proceed("rename")
    /\ UNCHANGED <<excludedExts, planArgs>>
    /\ UNCHANGED <<args, cfgSettings, devLoc, fromFiles, toDirs, toFiles,
                   tmpFiles, convertReturned, deleteFilesArgs,
                   deletePathsArgs, copyFailed>>

\* main.py:160-165
DeleteTmpFiles ==
    /\ pc = "deleteFiles"
    /\ deleteFilesArgs' = Append(deleteFilesArgs, DeleteFilesArgument)
    /\ Returns("deleteFiles")
    /\ Proceed("deleteFiles")
    /\ UNCHANGED <<excludedExts, planArgs>>
    /\ UNCHANGED <<args, cfgSettings, devLoc, fromFiles, toDirs, toFiles,
                   tmpFiles, convertReturned, deletePathsArgs, copyFailed>>

\* main.py:167-181
DeleteSources ==
    /\ pc = "deletePaths"
    /\ LET deleteSourceSetting == cfgSettings.DeleteSources
           promptFlag == PromptFlag(deleteSourceSetting)
       IN IF ShouldDeleteSources(deleteSourceSetting, args.non_interactive)
          THEN /\ deletePathsArgs' =
                     Append(deletePathsArgs,
                            [paths |-> DeletePathsArgument,
                             promptFlag |-> promptFlag])
               /\ Returns("deletePaths")
          ELSE UNCHANGED <<deletePathsArgs, calls, returned>>
    /\ Proceed("deletePaths")
    /\ UNCHANGED <<excludedExts, planArgs>>
    /\ UNCHANGED <<args, cfgSettings, devLoc, fromFiles, toDirs, toFiles,
                   tmpFiles, convertReturned, deleteFilesArgs, copyFailed>>

\* main() reporting a failed unmount without aborting
Unmount_ContinuesOnFailure ==
    /\ pc = "unmount"
    /\ IF ~args.no_fatsort
       THEN /\ Returns("unmount")
            /\ \E unmounted \in BOOLEAN :
                 IF ~unmounted
                 THEN /\ Error("Failed to unmount!")
                      /\ failed' = "unmount"
                      /\ pc' = After("unmount")
                      /\ UNCHANGED exitStatus
                 ELSE Proceed("unmount")
       ELSE /\ Proceed("unmount")
            /\ UNCHANGED <<calls, returned>>
    /\ UNCHANGED <<excludedExts, planArgs>>
    /\ UNCHANGED <<args, cfgSettings, devLoc, fromFiles, toDirs, toFiles,
                   tmpFiles, convertReturned, deleteFilesArgs,
                   deletePathsArgs, copyFailed>>

\* the unmount done also with --no-fatsort
Unmount_IgnoresNoFatsort ==
    /\ pc = "unmount"
    /\ Returns("unmount")
    /\ \E unmounted \in BOOLEAN :
         IF ~unmounted THEN Fatal("unmount", "Failed to unmount!")
         ELSE Proceed("unmount")
    /\ UNCHANGED <<excludedExts, planArgs>>
    /\ UNCHANGED <<args, cfgSettings, devLoc, fromFiles, toDirs, toFiles,
                   tmpFiles, convertReturned, deleteFilesArgs,
                   deletePathsArgs, copyFailed>>

\* main.py:183-192
Unmount ==
    /\ pc = "unmount"
    /\ IF ~args.no_fatsort
       THEN /\ Returns("unmount")
            /\ \E unmounted \in BOOLEAN :
                 IF ~unmounted THEN Fatal("unmount", "Failed to unmount!")
                 ELSE Proceed("unmount")
       ELSE /\ Proceed("unmount")
            /\ UNCHANGED <<calls, returned>>
    /\ UNCHANGED <<excludedExts, planArgs>>
    /\ UNCHANGED <<args, cfgSettings, devLoc, fromFiles, toDirs, toFiles,
                   tmpFiles, convertReturned, deleteFilesArgs,
                   deletePathsArgs, copyFailed>>

\* main() reporting a failed fatsort without aborting
Fatsort_ContinuesOnFailure ==
    /\ pc = "fatsort"
    /\ IF ~args.no_fatsort
       THEN /\ Returns("fatsort")
            /\ \E sorted \in BOOLEAN :
                 IF ~sorted
                 THEN /\ Error("Failed to fatsort!")
                      /\ failed' = "fatsort"
                      /\ pc' = After("fatsort")
                      /\ UNCHANGED exitStatus
                 ELSE Proceed("fatsort")
       ELSE /\ Proceed("fatsort")
            /\ UNCHANGED <<calls, returned>>
    /\ UNCHANGED <<excludedExts, planArgs>>
    /\ UNCHANGED <<args, cfgSettings, devLoc, fromFiles, toDirs, toFiles,
                   tmpFiles, convertReturned, deleteFilesArgs,
                   deletePathsArgs, copyFailed>>

\* main.py:194-201
Fatsort ==
    /\ pc = "fatsort"
    /\ IF ~args.no_fatsort
       THEN /\ Returns("fatsort")
            /\ \E sorted \in BOOLEAN :
                 IF ~sorted THEN Fatal("fatsort", "Failed to fatsort!")
                 ELSE Proceed("fatsort")
       ELSE /\ Proceed("fatsort")
            /\ UNCHANGED <<calls, returned>>
    /\ UNCHANGED <<excludedExts, planArgs>>
    /\ UNCHANGED <<args, cfgSettings, devLoc, fromFiles, toDirs, toFiles,
                   tmpFiles, convertReturned, deleteFilesArgs,
                   deletePathsArgs, copyFailed>>

\* main.py:203-206
Finish ==
    /\ pc = "return"
    /\ pc' = "done"
    /\ exitStatus' = 0
    /\ UNCHANGED <<failed, errors>>
    /\ UNCHANGED <<excludedExts, planArgs>>
    /\ UNCHANGED <<args, cfgSettings, devLoc, fromFiles, toDirs, toFiles,
                   tmpFiles, calls, returned, convertReturned,
                   deleteFilesArgs, deletePathsArgs, copyFailed>>

Next ==
    \/ ReadConfig
    \/ RequestRootAccess
    \/ CheckFatsortAvailable
    \/ FindDeviceLocations
    \/ GetPaths
    \/ FilterExtensions
    \/ ConvertAudio
    \/ CreateDirectories
    \/ CopyFiles
    \/ ArminRename
    \/ DeleteTmpFiles
    \/ DeleteSources
    \/ Unmount
    \/ Fatsort
    \/ Finish

Spec == Init /\ [][Next]_vars


\* talk.error: the messages that were printed; quiet suppresses a message
Emitted == {errors[i].message : i \in {n \in 1..Len(errors) : ~errors[n].quiet}}

----------------------------------------------------------------------------
(* Properties *)

DeleteSetting == cfgSettings.DeleteSources

\* main() has gone past its source-deletion statement (main.py:167-181)
PastSourceDeletion == pc \in {"unmount", "fatsort", "return", "done"}

TransferStages == <<"getCorrespondingPathsLists", "filterOutExtensions",
                    "convertAudioFiles", "createDirectories", "copyFiles",
                    "deleteFiles">>

StageCalls == SelectSeq(calls, LAMBDA f : f \in Range(TransferStages))

\* C1: the transfer stages run at most once each, in the order path mapping,
\* extension filter, audio conversion, directory creation, file copy,
\* temp-file deletion, and a stage starts only when every earlier stage has
\* returned.
C1_StagesInFixedOrder ==
    LET sc == StageCalls
    IN /\ Len(sc) <= Len(TransferStages)
       /\ \A i \in 1..Len(sc) :
            /\ i <= Len(TransferStages) => sc[i] = TransferStages[i]
            /\ \A j \in 1..(i - 1) : sc[j] \in returned

C1_Witness ==
    /\ pc = "done"
    /\ StageCalls = TransferStages

\* C2: when the run has ended, in whatever way, every temp file the
\* conversion returned has been handed to temp-file deletion exactly once.
C2_TmpFilesDeletedOnEveryExit ==
    pc \in {"done", "aborted"} =>
        \A t \in Range(convertReturned) :
            Cardinality({<<n, i>> \in (1..Len(deleteFilesArgs)) \X (1..Len(convertReturned)) :
                            /\ i <= Len(deleteFilesArgs[n])
                            /\ deleteFilesArgs[n][i] = t}) = 1

\* C3: with DeleteSources = 0 the source deletion is never executed.
C3_ZeroNeverDeletes ==
    (cfgSettings.read /\ DeleteSetting = 0) =>
        /\ deletePathsArgs = <<>>
        /\ "deletePaths" \notin Range(calls)

C3_Witness ==
    /\ cfgSettings.read
    /\ DeleteSetting = 0
    /\ ~args.non_interactive
    /\ PastSourceDeletion

\* C4 as stated: with DeleteSources = 2 every run that gets past the source
\* deletion has deleted the sources without prompting.
C4_TwoDeletesUnconditionally ==
    (cfgSettings.read /\ DeleteSetting = 2 /\ PastSourceDeletion) =>
        /\ Len(deletePathsArgs) = 1
        /\ deletePathsArgs[1].promptFlag = 0

\* C4 as amended: it is DeleteSources = 1 with which every run that gets past
\* the source deletion has called deletePaths once, on every source path,
\* with prompt flag 0, in interactive and non-interactive mode alike.
C4_OneDeletesUnconditionally ==
    (cfgSettings.read /\ DeleteSetting = 1 /\ PastSourceDeletion) =>
        /\ Len(deletePathsArgs) = 1
        /\ deletePathsArgs[1].promptFlag = 0
        /\ deletePathsArgs[1].paths =
               [k \in 1..Len(args.sources) |-> SrcPath(k, 0)]

C4_Witness ==
    /\ DeleteSetting = 1
    /\ args.non_interactive
    /\ pc = "done"
    /\ Len(deletePathsArgs) = 1

\* C5 as stated: with DeleteSources = 1 and non-interactive mode the source
\* deletion is not executed.
C5_OneNonInteractiveSkips ==
    (cfgSettings.read /\ DeleteSetting = 1 /\ args.non_interactive) =>
        /\ deletePathsArgs = <<>>
        /\ "deletePaths" \notin Range(calls)

\* C5 as amended: with DeleteSources = 2 and non-interactive mode the source
\* deletion is not executed at all.
C5_TwoNonInteractiveSkips ==
    (cfgSettings.read /\ DeleteSetting = 2 /\ args.non_interactive) =>
        /\ deletePathsArgs = <<>>
        /\ "deletePaths" \notin Range(calls)

C5_Witness ==
    /\ DeleteSetting = 2
    /\ args.non_interactive
    /\ pc = "done"

\* C6 as stated: with DeleteSources = 1 and interactive mode the source
\* deletion is executed with a set prompt flag.
C6_OneInteractivePrompts ==
    (cfgSettings.read /\ DeleteSetting = 1 /\ ~args.non_interactive
     /\ PastSourceDeletion) =>
        /\ Len(deletePathsArgs) = 1
        /\ deletePathsArgs[1].promptFlag # 0

\* C6 as amended: with DeleteSources = 2 and interactive mode the source
\* deletion is executed once, with prompt flag 1, and never with prompt
\* flag 0.
C6_TwoInteractivePrompts ==
    (cfgSettings.read /\ DeleteSetting = 2 /\ ~args.non_interactive) =>
        /\ PastSourceDeletion =>
             /\ Len(deletePathsArgs) = 1
             /\ deletePathsArgs[1].promptFlag = 1
        /\ \A n \in 1..Len(deletePathsArgs) :
             deletePathsArgs[n].promptFlag # 0

C6_Witness ==
    /\ DeleteSetting = 2
    /\ ~args.non_interactive
    /\ pc = "done"
    /\ Len(deletePathsArgs) = 1

\* C7: in non-interactive mode deletePaths is never called with a non-zero
\* prompt flag, whatever the value of DeleteSources.
C7_NonInteractiveNeverPrompts ==
    args.non_interactive =>
        \A n \in 1..Len(deletePathsArgs) : deletePathsArgs[n].promptFlag = 0

C7_Witness ==
    /\ args.non_interactive
    /\ cfgSettings.read
    /\ DeleteSetting \notin {0, 1}
    /\ pc = "unmount"

\* C8: the source deletion is executed only after the copy stage has
\* returned, and only in runs in which the copy stage copied every file.
C8_DeleteOnlyAfterSuccessfulCopy ==
    deletePathsArgs # <<>> =>
        /\ "copyFiles" \in returned
        /\ copyFailed = {}

\* C9: temp-file deletion is called at most once, on exactly the list the
\* conversion returned, which holds no source file and no mapped
\* destination file.
C9_DeletesExactlyTmpFiles ==
    /\ Len(deleteFilesArgs) <= 1
    /\ \A n \in 1..Len(deleteFilesArgs) :
         /\ "convertAudioFiles" \in returned
         /\ deleteFilesArgs[n] = convertReturned
         /\ \A t \in Range(deleteFilesArgs[n]) : t[1] = "tmp"

C9_Witness ==
    /\ Len(deleteFilesArgs) = 1
    /\ deleteFilesArgs[1] # <<>>
    /\ Len(fromFiles) > Len(deleteFilesArgs[1])

WriteCalls == {"createDirectories", "copyFiles", "rename", "deleteFiles",
               "deletePaths"}

\* C10: when unmount is called, directory creation, file copy, the Armin
\* rename (in Armin mode), temp-file deletion and the source deletion (when
\* the policy selects it) have been called and have returned, and none of
\* them is called afterwards.
C10_UnmountAfterAllWrites ==
    \A u \in 1..Len(calls) :
        calls[u] = "unmount" =>
            /\ \A f \in {"createDirectories", "copyFiles", "deleteFiles"} :
                 \E i \in 1..(u - 1) : calls[i] = f
            /\ args.armin => \E i \in 1..(u - 1) : calls[i] = "rename"
            /\ (DeleteSetting # 0 /\ ~(args.non_interactive /\ DeleteSetting # 1))
                 => \E i \in 1..(u - 1) : calls[i] = "deletePaths"
            /\ \A i \in 1..Len(calls) :
                 calls[i] \in WriteCalls => i < u /\ calls[i] \in returned

C10_Witness ==
    /\ "unmount" \in Range(calls)
    /\ "rename" \in Range(calls)
    /\ "deletePaths" \in Range(calls)


\* the calls whose failure main() treats as fatal (main.py:47, 62, 78, 96,
\* 188, 197)
FatalCalls == {"getConfigurationSettings", "requestRootAccess",
               "fatsortAvailable", "findDeviceLocations", "unmount",
               "fatsort"}

\* the failures main() reports itself, with the message it passes to
\* talk.error
ReportedByMain ==
    [requestRootAccess   |-> "Failed to run as root!",
     fatsortAvailable    |-> "fatsort not found!",
     findDeviceLocations |-> "no FAT device found!",
     unmount             |-> "Failed to unmount!",
     fatsort             |-> "Failed to fatsort!"]

LastCall == IF calls = <<>> THEN "" ELSE calls[Len(calls)]

C12_NoMutationAfterFailedMapping ==
    failed = "getCorrespondingPathsLists" =>
        /\ pc = "aborted"
        /\ LastCall = "getCorrespondingPathsLists"
        /\ Range(calls) \cap {"filterOutExtensions", "convertAudioFiles",
                              "createDirectories", "copyFiles",
                              "deleteFiles", "deletePaths"} = {}
        /\ planArgs = <<>>
        /\ deleteFilesArgs = <<>>
        /\ deletePathsArgs = <<>>

C12_Witness ==
    /\ failed = "getCorrespondingPathsLists"
    /\ pc = "aborted"
    /\ cfgSettings.DeleteSources = 1


\* the plan as the path mapping computes it from the sources of the run
Mapped == getCorrespondingPathsLists(args.sources)

\* the source file a plan entry (source, destination or temp) stands for
SourceOf(p) == SrcPath(p[2], p[3])

\* C13: the conversion and the copy are handed exactly the mapped files whose
\* extension the filter did not exclude, and no temp file is made from an
\* excluded file.
C13_FilteredNeitherConvertedNorCopied ==
    /\ planArgs # <<>> =>
         LET mapped == Mapped.fromFiles
         IN \A n \in 1..Len(planArgs) :
              planArgs[n].call \in {"convertAudioFiles", "copyFiles"} =>
                  \A i \in 1..Len(mapped) :
                      (ExtOf(args.sources, mapped[i]) \in excludedExts)
                          <=> mapped[i] \notin Range(planArgs[n].fromFiles)
    /\ \A t \in Range(convertReturned) :
         ExtOf(args.sources, SourceOf(t)) \notin excludedExts

C13_Witness ==
    \E n \in 1..Len(planArgs) :
        /\ planArgs[n].call = "copyFiles"
        /\ planArgs[n].fromFiles # <<>>
        /\ Len(planArgs[n].fromFiles) < Len(Mapped.fromFiles)
        /\ excludedExts = {"wav"}

Parallel(ff, tf) ==
    /\ Len(ff) = Len(tf)
    /\ \A i \in 1..Len(ff) : SourceOf(ff[i]) = SourceOf(tf[i])

\* C14: the source list and the destination list of the plan have the same
\* length and agree position by position, in every state and in the
\* arguments of the filter, the conversion and the copy.
C14_ListsStayParallel ==
    /\ Parallel(fromFiles, toFiles)
    /\ \A n \in 1..Len(planArgs) :
         planArgs[n].call \in {"filterOutExtensions", "convertAudioFiles",
                               "copyFiles"} =>
             Parallel(planArgs[n].fromFiles, planArgs[n].toFiles)

C14_Witness ==
    \E n \in 1..Len(planArgs) :
        /\ planArgs[n].call = "copyFiles"
        /\ Len(planArgs[n].fromFiles) < Len(Mapped.fromFiles)
        /\ \E i \in 1..Len(planArgs[n].toFiles) :
             planArgs[n].toFiles[i][1] = "tmp"
        /\ \E i \in 1..Len(planArgs[n].toFiles) :
             planArgs[n].toFiles[i][1] = "dst"

\* where main() stands in MainOrder: past the last call it has made
PcAt == IF pc = "done" THEN Len(MainOrder) + 1
        ELSE IF pc = "aborted" THEN Position(MainOrder, failed) + 1
        ELSE Position(MainOrder, pc)

\* main() has run the statement of the call f
Passed(f) == PcAt > Position(MainOrder, f)

FatsortCalls == {"requestRootAccess", "fatsortAvailable", "unmount",
                 "fatsort"}

\* C15: with --no-fatsort none of root request, fatsort check, unmount and
\* fatsort is called; without it each of them is called in every run that
\* gets to its statement.
C15_FatsortStepsFollowTheFlag ==
    /\ args.no_fatsort => Range(calls) \cap FatsortCalls = {}
    /\ ~args.no_fatsort =>
         \A f \in FatsortCalls : Passed(f) => f \in Range(calls)

C15_Witness ==
    /\ args.no_fatsort
    /\ pc = "done"
    /\ "copyFiles" \in returned

Count(f) == Cardinality({i \in 1..Len(calls) : calls[i] = f})

\* C16: outside Armin mode rename is never called; in Armin mode it is called
\* exactly once in every run that gets to it, after the copy has returned and
\* before temp-file deletion, source deletion and unmount.
C16_ArminRenameOnceAfterCopy ==
    /\ ~args.armin => Count("rename") = 0
    /\ args.armin =>
         /\ Count("rename") <= 1
         /\ Passed("rename") => Count("rename") = 1
         /\ \A i \in 1..Len(calls) :
              calls[i] = "rename" =>
                  /\ "copyFiles" \in returned
                  /\ \E j \in 1..(i - 1) : calls[j] = "copyFiles"
                  /\ \A j \in 1..(i - 1) :
                       calls[j] \notin {"deleteFiles", "deletePaths",
                                        "unmount"}

C16_Witness ==
    /\ args.armin
    /\ pc = "done"
    /\ "deletePaths" \in returned
    /\ "unmount" \in returned

\* C17: fatsort is called only after an unmount that succeeded, never after
\* a failed one, and the run ends successfully with fatsorting enabled only
\* when unmount and fatsort were both called and neither failed.
C17_FatsortOnlyAfterUnmount ==
    /\ \A i \in 1..Len(calls) :
         calls[i] = "fatsort" =>
             /\ \E j \in 1..(i - 1) : calls[j] = "unmount"
             /\ failed # "unmount"
    /\ failed = "unmount" => "fatsort" \notin Range(calls)
    /\ (pc = "done" /\ ~args.no_fatsort) =>
         /\ {"unmount", "fatsort"} \subseteq returned
         /\ failed = ""

C17_Witness ==
    /\ pc = "done"
    /\ ~args.no_fatsort
    /\ "fatsort" \in returned

TransferCalls == {"getCorrespondingPathsLists", "filterOutExtensions",
                  "convertAudioFiles", "createDirectories", "copyFiles",
                  "rename", "deleteFiles", "deletePaths"}

\* C18: the device lookup is called in every run that gets to it, also with
\* --no-fatsort, and when it finds no device the run is aborted with status 1
\* and no transfer or deletion call is made.
C18_DeviceLookupIsMandatory ==
    /\ Passed("findDeviceLocations") => "findDeviceLocations" \in returned
    /\ ("findDeviceLocations" \in returned /\ devLoc = "") =>
         /\ pc = "aborted"
         /\ exitStatus = 1
         /\ failed = "findDeviceLocations"
         /\ Range(calls) \cap TransferCalls = {}
    /\ Range(calls) \cap TransferCalls # {} =>
         ("findDeviceLocations" \in returned /\ devLoc # "")

C18_Witness ==
    /\ args.no_fatsort
    /\ failed = "findDeviceLocations"
    /\ devLoc = ""

\* C19: the directory creation is handed exactly the directory list of the
\* path mapping, which the filter and the conversion leave unchanged.
C19_AllMappedDirectoriesCreated ==
    "getCorrespondingPathsLists" \in returned =>
        LET mapped == Mapped.toDirs
        IN /\ toDirs = mapped
           /\ \A n \in 1..Len(planArgs) :
                planArgs[n].call = "createDirectories" =>
                    planArgs[n].toDirs = mapped

\* a directory is handed to the creation although the filter removed every
\* file destined for it
C19_Witness ==
    \E n \in 1..Len(planArgs) :
        /\ planArgs[n].call = "createDirectories"
        /\ "createDirectories" \in returned
        /\ \E d \in Range(planArgs[n].toDirs) :
             \A i \in 1..Len(toFiles) : DirOf(toFiles[i]) # d


====
